---- MODULE Spec2Model ----
(***************************************************************************)
(* AzGit (cmd/azgit/main.go): the first-run bootstrap of the identity      *)
(* store from the Git global config, and the `list` command.               *)
(*                                                                         *)
(* A file's content is a sequence of lines, each a triple of strings:      *)
(* <<"sec", name, "">> is a section header, <<"key", k, v>> a `k = v`      *)
(* line.  NoFile (the path does not exist) and Malformed (bytes the INI    *)
(* parser rejects) are two marker contents.  Values are plain tokens (no   *)
(* quote, comment symbol or surrounding blank), which the INI library      *)
(* writes and reads verbatim.                                              *)
(***************************************************************************)
EXTENDS Integers, Sequences, FiniteSets, TLC

VARIABLES
    azDir,      \* state of <home>/.config/azgit
    storeFile,  \* <home>/.config/azgit/config.ini
    gitFile,    \* <home>/.gitconfig
    pc,         \* pc[p]: position of invocation p
    cmd,        \* cmd[p]: the command cobra dispatched
    statErr,    \* statErr[p]: result of the last os.Stat
    identity,   \* identity[p]: the GitIdentity fetched
    buf,        \* buf[p]: the serialized newCfg SaveTo is writing
    result,     \* result[p]: what the invocation's RunE returned
    out,        \* out[p]: the Println calls made, each a sequence of lines
    ops,        \* ops[p]: the calls this invocation has made (history)
    snap,       \* snap[p]: the files as initializeAzGitConfig found them
    prev,       \* prev[p]: summary of the previous invocation
    wlog        \* the successful opens and writes of the store, in order

vars == <<azDir, storeFile, gitFile, pc, cmd, statErr, identity, buf,
          result, out, ops, snap, prev, wlog>>

Procs == {1, 2}

\* ---------------------------------------------------------------- bounds
MaxLines == 4

\* ----------------------------------------------------------------- files
NoFile == <<<<"nofile", "", "">>>>
Malformed == <<<<"malformed", "", "">>>>
Absent == "<absent>"

IsLines(f) == f # NoFile /\ f # Malformed

SecLine(n) == <<"sec", n, "">>
KeyLine(k, v) == <<"key", k, v>>

\* ------------------------------------------------------- the INI library
DefaultSection == "DEFAULT"

\* ini.Empty(): a file with the unnamed section only.
IniEmpty == << [name |-> DefaultSection, keys |-> <<>>] >>

SecIndex(cfg, n) ==
    IF \E i \in 1..Len(cfg) : cfg[i].name = n
    THEN CHOOSE i \in 1..Len(cfg) : cfg[i].name = n
    ELSE 0

KeyIndex(sec, k) ==
    IF \E i \in 1..Len(sec.keys) : sec.keys[i][1] = k
    THEN CHOOSE i \in 1..Len(sec.keys) : sec.keys[i][1] = k
    ELSE 0

\* File.NewSection: an existing section is returned, a new one is appended.
NewSection(cfg, n) ==
    IF SecIndex(cfg, n) # 0 THEN cfg
    ELSE Append(cfg, [name |-> n, keys |-> <<>>])

\* Section.NewKey on section n of cfg: an existing key gets the new value
\* in place, a new key goes last.
NewKey(cfg, n, k, v) ==
    LET i == SecIndex(cfg, n)
        sec == cfg[i]
        j == KeyIndex(sec, k)
    IN  IF j # 0
        THEN [cfg EXCEPT ![i].keys[j] = <<k, v>>]
        ELSE [cfg EXCEPT ![i].keys = Append(sec.keys, <<k, v>>)]

\* Section.Key(k).String(): an absent key reads as the empty string.
KeyString(sec, k) ==
    LET j == KeyIndex(sec, k)
    IN  IF j = 0 THEN "" ELSE sec.keys[j][2]

HasKey(sec, k) == KeyIndex(sec, k) # 0

\* File.Section(n): an absent section reads as an empty one.
Section(cfg, n) ==
    LET i == SecIndex(cfg, n)
    IN  IF i = 0 THEN [name |-> n, keys |-> <<>>] ELSE cfg[i]

\* ini.Load's parser: the unnamed section comes first, a header opens (or
\* reopens) its section, a key line sets the key in the open section.
RECURSIVE ParseLines(_, _, _, _)
ParseLines(lines, i, cfg, cur) ==
    IF i > Len(lines) THEN cfg
    ELSE IF lines[i][1] = "sec"
         THEN ParseLines(lines, i + 1, NewSection(cfg, lines[i][2]), lines[i][2])
         ELSE ParseLines(lines, i + 1,
                         NewKey(cfg, cur, lines[i][2], lines[i][3]), cur)

IniParse(lines) == ParseLines(lines, 1, IniEmpty, DefaultSection)

\* File.WriteTo: the unnamed section has no header and is left out when it
\* has no keys; every other section is a header and its keys.
RECURSIVE KeyLines(_, _)
KeyLines(keys, i) ==
    IF i > Len(keys) THEN <<>>
    ELSE <<KeyLine(keys[i][1], keys[i][2])>> \o KeyLines(keys, i + 1)

RECURSIVE WriteSections(_, _)
WriteSections(cfg, i) ==
    IF i > Len(cfg) THEN <<>>
    ELSE (IF i = 1 THEN <<>> ELSE <<SecLine(cfg[i].name)>>)
         \o KeyLines(cfg[i].keys, 1) \o WriteSections(cfg, i + 1)

IniWrite(cfg) == WriteSections(cfg, 1)

\* ------------------------------------------------------------- the os layer
DirStates == {"absent", "uncreatable", "dir", "readonly", "notdir", "noaccess"}

DirHoldsFiles(d) == d \in {"dir", "readonly", "noaccess"}

\* os.Stat(getAzgitConfigPath())
StatConfig(d, f) ==
    CASE d = "notdir"   -> "ENOTDIR"
      [] d = "noaccess" -> "EACCES"
      [] d \in {"absent", "uncreatable"} -> "ENOENT"
      [] OTHER -> IF f = NoFile THEN "ENOENT" ELSE "nil"

\* os.Stat(azgitFolderPath)
StatDir(d) == IF d \in {"absent", "uncreatable"} THEN "ENOENT" ELSE "nil"

IsNotExist(err) == err = "ENOENT"

\* Variant of MkdirAll: os.Mkdir, which fails on an existing directory.
MkdirFailsIfExists(d) ==
    CASE d = "absent"      -> <<"nil", "dir">>
      [] d = "uncreatable" -> <<"EACCES", d>>
      [] d = "notdir"      -> <<"ENOTDIR", d>>
      [] OTHER             -> <<"EEXIST", d>>

\* os.MkdirAll(azgitFolderPath, 0755): <<error, directory afterwards>>
MkdirAll(d) ==
    CASE d = "absent"      -> <<"nil", "dir">>
      [] d = "uncreatable" -> <<"EACCES", d>>
      [] d = "notdir"      -> <<"ENOTDIR", d>>
      [] OTHER             -> <<"nil", d>>

\* The open(O_WRONLY|O_CREATE|O_TRUNC) of os.WriteFile: the error.
OpenTrunc(d, f) ==
    CASE d = "dir"      -> "nil"
      [] d = "readonly" -> IF f = NoFile THEN "EACCES" ELSE "nil"
      [] d = "noaccess" -> "EACCES"
      [] d = "notdir"   -> "ENOTDIR"
      [] OTHER          -> "ENOENT"

\* A write of `new` at offset 0 of a file holding `old`.
Overlay(new, old) ==
    IF Len(new) >= Len(old) THEN new
    ELSE new \o SubSeq(old, Len(new) + 1, Len(old))

\* ------------------------------------------------------------ the inputs
Values == {"", "a", "b"}
OptValues == {Absent} \cup Values
OptKeys == {Absent, "", "k"}
OptFlags == {Absent, "", "true"}

OptLine(k, v) == IF v = Absent THEN <<>> ELSE <<KeyLine(k, v)>>

\* A ~/.gitconfig with the given user.name, user.email, user.signingkey and
\* commit.gpgsign, each possibly absent.
GitFileOf(n, e, s, g) ==
    (IF n = Absent /\ e = Absent /\ s = Absent THEN <<>> ELSE <<SecLine("user")>>)
    \o OptLine("name", n) \o OptLine("email", e) \o OptLine("signingkey", s)
    \o (IF g = Absent THEN <<>> ELSE <<SecLine("commit"), KeyLine("gpgsign", g)>>)

GitFiles ==
    {NoFile, Malformed}
    \cup {GitFileOf(n, e, s, g) : n \in OptValues, e \in OptValues,
                                  s \in OptKeys, g \in OptFlags}

\* Stores a user may have left behind (hand-edited, or from an earlier run).
SomeStores ==
    { Malformed,
      <<>>,
      <<SecLine("default"), KeyLine("name", "b"), KeyLine("email", "b")>>,
      <<SecLine("work"), KeyLine("name", "a"), KeyLine("signingkey", "k"),
        SecLine("empty")>> }

\* The lines a store may hold, for the listing.
SectionNames == {"default", "work"}
ListKeys == {"name", "email", "signingkey", "gpgsign"}
ListValues == {"", "a"}
StoreLines ==
    {SecLine(n) : n \in SectionNames}
    \cup {KeyLine(k, v) : k \in ListKeys, v \in ListValues}

SeqsUpTo(S, n) == UNION {[1..m -> S] : m \in 0..n}

ListStores == {NoFile, Malformed} \cup SeqsUpTo(StoreLines, MaxLines)

\* What the two racing invocations may find in ~/.gitconfig.
RaceGitFiles ==
    { GitFileOf("a", "b", Absent, Absent),
      GitFileOf("b", "a", "k", Absent),
      GitFileOf("a", "", "k", "true") }

\* ------------------------------------------------------------ the program
ZeroIdentity == [Name |-> "", Email |-> "", SigningKey |-> "", GPGSign |-> ""]

\* fetchDefaultGitIdentity: <<error, identity>>
fetchDefaultGitIdentity(f) ==
    IF ~IsLines(f) THEN <<"err", ZeroIdentity>>
    ELSE LET gitCfg == IniParse(f)
         IN  <<"nil",
               [Name       |-> KeyString(Section(gitCfg, "user"), "name"),
                Email      |-> KeyString(Section(gitCfg, "user"), "email"),
                SigningKey |-> KeyString(Section(gitCfg, "user"), "signingkey"),
                GPGSign    |-> KeyString(Section(gitCfg, "commit"), "gpgsign")]>>

\* Variant of BuildDefaultConfig: the two optional keys set unconditionally.
BuildDefaultConfigAllKeys(id) ==
    LET c0 == NewSection(IniEmpty, "default")
        c1 == NewKey(c0, "default", "name", id.Name)
        c2 == NewKey(c1, "default", "email", id.Email)
        c3 == NewKey(c2, "default", "signingkey", id.SigningKey)
    IN  NewKey(c3, "default", "gpgsign", id.GPGSign)

\* initializeAzGitConfig, lines 89-102: the newCfg built from the identity.
BuildDefaultConfig(id) ==
    LET c0 == NewSection(IniEmpty, "default")
        c1 == NewKey(c0, "default", "name", id.Name)
        c2 == NewKey(c1, "default", "email", id.Email)
        c3 == IF id.SigningKey # ""
              THEN NewKey(c2, "default", "signingkey", id.SigningKey) ELSE c2
        c4 == IF id.GPGSign # ""
              THEN NewKey(c3, "default", "gpgsign", id.GPGSign) ELSE c3
    IN  c4

\* Variant of ShouldBootstrap: `err != nil` in place of os.IsNotExist(err).
ShouldBootstrapOnAnyError(err) == err # "nil"

\* initializeAzGitConfig, line 76: whether the bootstrap goes on.
ShouldBootstrap(err) == IsNotExist(err)

\* loadAzGitConfig: <<error, cfg>>
loadAzGitConfig(d, f) ==
    IF d \in {"dir", "readonly"} /\ IsLines(f)
    THEN <<"nil", IniParse(f)>>
    ELSE <<"err", IniEmpty>>

BlankLine == <<"", "">>
TitleLine == <<"List of Identities:", "">>
HelpText == <<<<"help", "">>>>

\* Variant of SkipSection: `||` in place of `&&`.
SkipSectionEitherEmpty(name, email) == name = "" \/ email = ""

\* listIdentities, line 119: the sections the listing leaves out.
SkipSection(name, email) == name = "" /\ email = ""

\* Variant of IdentityBlock: every line, Name and Email too, only if non-empty.
IdentityBlockNonEmptyOnly(section) ==
    LET name == KeyString(section, "name")
        email == KeyString(section, "email")
        signingKey == KeyString(section, "signingkey")
        gpgSign == KeyString(section, "gpgsign")
    IN  <<BlankLine, <<"Identity", section.name>>>>
        \o (IF name # "" THEN <<<<"Name", name>>>> ELSE <<>>)
        \o (IF email # "" THEN <<<<"Email", email>>>> ELSE <<>>)
        \o (IF signingKey # "" THEN <<<<"Signing Key", signingKey>>>> ELSE <<>>)
        \o (IF gpgSign # "" THEN <<<<"GPG Sign", gpgSign>>>> ELSE <<>>)
        \o <<BlankLine>>

\* listIdentities, lines 123-135: the text of one Println.
IdentityBlock(section) ==
    LET name == KeyString(section, "name")
        email == KeyString(section, "email")
        signingKey == KeyString(section, "signingkey")
        gpgSign == KeyString(section, "gpgsign")
    IN  <<BlankLine, <<"Identity", section.name>>,
          <<"Name", name>>, <<"Email", email>>>>
        \o (IF signingKey # "" THEN <<<<"Signing Key", signingKey>>>> ELSE <<>>)
        \o (IF gpgSign # "" THEN <<<<"GPG Sign", gpgSign>>>> ELSE <<>>)
        \o <<BlankLine>>

\* listIdentities, lines 114-136: the Println calls of the loop.
RECURSIVE RenderSections(_, _)
RenderSections(cfg, i) ==
    IF i > Len(cfg) THEN <<>>
    ELSE IF SkipSection(KeyString(cfg[i], "name"), KeyString(cfg[i], "email"))
         THEN RenderSections(cfg, i + 1)
         ELSE <<IdentityBlock(cfg[i])>> \o RenderSections(cfg, i + 1)

\* ------------------------------------------------------------ the actions
NoSnap == [store |-> NoFile, git |-> NoFile]
NoPrev == [cmd |-> "none", result |-> "none", snap |-> NoSnap,
           wrote |-> FALSE]

Summary(p) == [cmd |-> cmd[p], result |-> result[p], snap |-> snap[p],
               wrote |-> "write" \in ops[p]]

Start(p, c, at) ==
    /\ pc[p] \in {"idle", "done"}
    /\ prev' = [prev EXCEPT ![p] = IF pc[p] = "idle" THEN NoPrev ELSE Summary(p)]
    /\ cmd' = [cmd EXCEPT ![p] = c]
    /\ pc' = [pc EXCEPT ![p] = at]
    /\ statErr' = [statErr EXCEPT ![p] = "nil"]
    /\ identity' = [identity EXCEPT ![p] = ZeroIdentity]
    /\ buf' = [buf EXCEPT ![p] = <<>>]
    /\ result' = [result EXCEPT ![p] = "none"]
    /\ out' = [out EXCEPT ![p] = <<>>]
    /\ ops' = [ops EXCEPT ![p] = {}]
    /\ snap' = [snap EXCEPT ![p] = NoSnap]
    /\ UNCHANGED <<azDir, storeFile, gitFile, wlog>>

\* `azgit`: cobra runs rootCmd.RunE, which starts with initializeAzGitConfig.
InvokeRoot(p) == Start(p, "root", "boot_stat")

\* `azgit list`: cobra runs listCmd.RunE, which is listIdentities itself.
InvokeList(p) == Start(p, "list", "list")

\* initializeAzGitConfig returns err.
BootReturn(p, err) ==
    /\ pc' = [pc EXCEPT ![p] = "boot_ret"]
    /\ result' = [result EXCEPT ![p] = err]

\* initializeAzGitConfig, lines 76-78.
BootStat(p) ==
    /\ pc[p] = "boot_stat"
    /\ LET err == StatConfig(azDir, storeFile)
       IN  /\ statErr' = [statErr EXCEPT ![p] = err]
           /\ IF ShouldBootstrap(err)
              THEN /\ pc' = [pc EXCEPT ![p] = "ensure_stat"]
                   /\ UNCHANGED result
              ELSE BootReturn(p, "nil")
    /\ snap' = [snap EXCEPT ![p] = [store |-> storeFile, git |-> gitFile]]
    /\ ops' = [ops EXCEPT ![p] = @ \cup {"stat_config"}]
    /\ UNCHANGED <<azDir, storeFile, gitFile, cmd, identity, buf, out, prev, wlog>>

\* ensureAzGitFolderExists, line 54: the os.Stat of the folder.
EnsureStat(p) ==
    /\ pc[p] = "ensure_stat"
    /\ LET err == StatDir(azDir)
       IN  /\ statErr' = [statErr EXCEPT ![p] = err]
           /\ pc' = [pc EXCEPT ![p] =
                        IF IsNotExist(err) THEN "ensure_mkdir" ELSE "fetch"]
    /\ ops' = [ops EXCEPT ![p] = @ \cup {"stat_dir"}]
    /\ UNCHANGED <<azDir, storeFile, gitFile, cmd, identity, buf, result, out,
                   snap, prev, wlog>>

\* ensureAzGitFolderExists, line 55, and the error return of lines 80-82.
EnsureMkdir(p) ==
    /\ pc[p] = "ensure_mkdir"
    /\ LET r == MkdirAll(azDir)
       IN  /\ azDir' = r[2]
           /\ IF r[1] # "nil"
              THEN BootReturn(p, "err_mkdir")
              ELSE /\ pc' = [pc EXCEPT ![p] = "fetch"]
                   /\ UNCHANGED result
    /\ ops' = [ops EXCEPT ![p] = @ \cup {"mkdir"}]
    /\ UNCHANGED <<storeFile, gitFile, cmd, statErr, identity, buf, out, snap,
                   prev, wlog>>

\* initializeAzGitConfig, lines 84-102, and SaveTo's writeToBuffer.
Fetch(p) ==
    /\ pc[p] = "fetch"
    /\ LET r == fetchDefaultGitIdentity(gitFile)
       IN  IF r[1] # "nil"
           THEN /\ BootReturn(p, "err_gitconfig")
                /\ UNCHANGED <<identity, buf>>
           ELSE /\ identity' = [identity EXCEPT ![p] = r[2]]
                /\ buf' = [buf EXCEPT ![p] = IniWrite(BuildDefaultConfig(r[2]))]
                /\ pc' = [pc EXCEPT ![p] = "save_open"]
                /\ UNCHANGED result
    /\ ops' = [ops EXCEPT ![p] = @ \cup {"read_git"}]
    /\ UNCHANGED <<azDir, storeFile, gitFile, cmd, statErr, out, snap, prev, wlog>>

\* SaveTo (line 104): os.WriteFile opens the store, creating or truncating it.
SaveOpen(p) ==
    /\ pc[p] = "save_open"
    /\ IF OpenTrunc(azDir, storeFile) # "nil"
       THEN /\ BootReturn(p, "err_write")
            /\ UNCHANGED <<storeFile, wlog, ops>>
       ELSE /\ storeFile' = <<>>
            /\ wlog' = Append(wlog, <<p, "open">>)
            /\ ops' = [ops EXCEPT ![p] = @ \cup {"open"}]
            /\ pc' = [pc EXCEPT ![p] = "save_write"]
            /\ UNCHANGED result
    /\ UNCHANGED <<azDir, gitFile, cmd, statErr, identity, buf, out, snap, prev>>

\* SaveTo (line 104): os.WriteFile writes the buffer at offset 0 and closes;
\* the write fails when the disk is full, leaving the file as opened.
SaveWrite(p) ==
    /\ pc[p] = "save_write"
    /\ \E full \in BOOLEAN :
         IF full
         THEN /\ BootReturn(p, "err_write")
              /\ UNCHANGED <<storeFile, wlog, ops>>
         ELSE /\ storeFile' = Overlay(buf[p], storeFile)
              /\ wlog' = Append(wlog, <<p, "write">>)
              /\ ops' = [ops EXCEPT ![p] = @ \cup {"write"}]
              /\ BootReturn(p, "nil")
    /\ UNCHANGED <<azDir, gitFile, cmd, statErr, identity, buf, out, snap, prev>>

\* rootCmd.RunE, lines 27-30: the bootstrap's error, or cmd.Help().
RootFinish(p) ==
    /\ pc[p] = "boot_ret"
    /\ pc' = [pc EXCEPT ![p] = "done"]
    /\ out' = [out EXCEPT ![p] = IF result[p] = "nil" THEN <<HelpText>> ELSE <<>>]
    /\ ops' = [ops EXCEPT ![p] = IF result[p] = "nil" THEN @ \cup {"help"} ELSE @]
    /\ UNCHANGED <<azDir, storeFile, gitFile, cmd, statErr, identity, buf,
                   result, snap, prev, wlog>>

\* listIdentities, lines 107-138.
ListIdentities(p) ==
    /\ pc[p] = "list"
    /\ LET r == loadAzGitConfig(azDir, storeFile)
       IN  IF r[1] # "nil"
           THEN /\ result' = [result EXCEPT ![p] = "err_load"]
                /\ UNCHANGED out
           ELSE /\ result' = [result EXCEPT ![p] = "nil"]
                /\ out' = [out EXCEPT ![p] =
                              <<<<TitleLine>>>> \o RenderSections(r[2], 1)]
    /\ pc' = [pc EXCEPT ![p] = "done"]
    /\ ops' = [ops EXCEPT ![p] = @ \cup {"load_store", "list"}]
    /\ snap' = [snap EXCEPT ![p] = [store |-> storeFile, git |-> gitFile]]
    /\ UNCHANGED <<azDir, storeFile, gitFile, cmd, statErr, identity, buf,
                   prev, wlog>>

\* The user edits ~/.gitconfig while invocations are running.
EditGitConfig ==
    /\ \E f \in RaceGitFiles : gitFile' = f
    /\ gitFile' # gitFile
    /\ UNCHANGED <<azDir, storeFile, pc, cmd, statErr, identity, buf, result,
                   out, ops, snap, prev, wlog>>

Bootstrap(p) ==
    \/ BootStat(p)
    \/ EnsureStat(p)
    \/ EnsureMkdir(p)
    \/ Fetch(p)
    \/ SaveOpen(p)
    \/ SaveWrite(p)

\* ------------------------------------------------------ the specifications
InitProcs ==
    /\ pc = [p \in Procs |-> "idle"]
    /\ cmd = [p \in Procs |-> "none"]
    /\ statErr = [p \in Procs |-> "nil"]
    /\ identity = [p \in Procs |-> ZeroIdentity]
    /\ buf = [p \in Procs |-> <<>>]
    /\ result = [p \in Procs |-> "none"]
    /\ out = [p \in Procs |-> <<>>]
    /\ ops = [p \in Procs |-> {}]
    /\ snap = [p \in Procs |-> NoSnap]
    /\ prev = [p \in Procs |-> NoPrev]
    /\ wlog = <<>>

\* One invocation after another, on any home directory.
Init ==
    /\ azDir \in DirStates
    /\ storeFile \in (IF DirHoldsFiles(azDir) THEN {NoFile} \cup SomeStores
                      ELSE {NoFile})
    /\ gitFile \in GitFiles
    /\ InitProcs

Next ==
    \/ InvokeRoot(1)
    \/ InvokeList(1)
    \/ Bootstrap(1)
    \/ RootFinish(1)
    \/ ListIdentities(1)

Spec == Init /\ [][Next]_vars

\* `azgit list` on any store.
InitList ==
    /\ azDir = "dir"
    /\ storeFile \in ListStores
    /\ gitFile = NoFile
    /\ InitProcs

NextList ==
    \/ InvokeList(1)
    \/ ListIdentities(1)

SpecList == InitList /\ [][NextList]_vars

\* Two invocations of `azgit` racing on the first run.
InitRace ==
    /\ azDir \in {"absent", "dir", "uncreatable", "readonly"}
    /\ storeFile = NoFile
    /\ gitFile \in RaceGitFiles
    /\ InitProcs

\* Each of the two processes is one invocation.
RaceInvoke(p) == pc[p] = "idle" /\ InvokeRoot(p)

NextRace ==
    \/ \E p \in Procs : RaceInvoke(p) \/ Bootstrap(p) \/ RootFinish(p)
    \/ EditGitConfig

SpecRace == InitRace /\ [][NextRace]_vars

\* -------------------------------------------------------------- the claims
Val(x) == IF x = Absent THEN "" ELSE x

\* The file holds a `k = ...` line, and the value of the first one.
FileHasKey(f, k) == \E i \in 1..Len(f) : f[i][1] = "key" /\ f[i][2] = k
FileKeyValue(f, k) ==
    f[CHOOSE i \in 1..Len(f) : f[i][1] = "key" /\ f[i][2] = k][3]

BootReturned(p) == pc[p] = "boot_ret"

\* C1: a bootstrap that finds the store file present returns success having
\* made no call but the os.Stat of the store (no directory created, the Git
\* config not read, no open, no write), and the store is as it was found,
\* whatever it and the Git config contain.
C1_ExistingStoreUntouched ==
    \A p \in Procs :
        (BootReturned(p) /\ snap[p].store # NoFile)
        => /\ result[p] = "nil"
           /\ ops[p] = {"stat_config"}
           /\ storeFile = snap[p].store

\* A second bootstrap, after the one that wrote the store from ~/.gitconfig.
C1_Witness ==
    /\ BootReturned(1)
    /\ snap[1].store # NoFile
    /\ prev[1].cmd = "root"
    /\ prev[1].wrote
    /\ prev[1].result = "nil"

\* C3: the store a bootstrap has written holds `name` and `email` with the
\* Git config's values (empty when it has none), holds `signingkey` exactly
\* when user.signingkey is non-empty and `gpgsign` exactly when
\* commit.gpgsign is non-empty, and holds neither with an empty value.
C3_WrittenKeys ==
    \A p \in Procs :
        (BootReturned(p) /\ result[p] = "nil" /\ "write" \in ops[p])
        => \A n \in OptValues, e \in OptValues, s \in OptKeys, g \in OptFlags :
             snap[p].git = GitFileOf(n, e, s, g)
             => /\ FileHasKey(storeFile, "name")
                /\ FileKeyValue(storeFile, "name") = Val(n)
                /\ FileHasKey(storeFile, "email")
                /\ FileKeyValue(storeFile, "email") = Val(e)
                /\ FileHasKey(storeFile, "signingkey") <=> (Val(s) # "")
                /\ FileHasKey(storeFile, "gpgsign") <=> (Val(g) # "")
                /\ \A i \in 1..Len(storeFile) :
                     (storeFile[i][1] = "key"
                      /\ storeFile[i][2] \in {"signingkey", "gpgsign"})
                     => storeFile[i][3] # ""

\* A store written from a Git config with no name, an empty signing key and
\* commit.gpgsign set.
C3_Witness ==
    /\ BootReturned(1)
    /\ result[1] = "nil"
    /\ "write" \in ops[1]
    /\ snap[1].git = GitFileOf(Absent, "a", "", "true")
    /\ FileHasKey(storeFile, "gpgsign")
    /\ ~FileHasKey(storeFile, "signingkey")

\* The sections of a parsed store that hold an identity: every section but
\* an unnamed section without keys.
IdentitySections(cfg) ==
    SelectSeq(cfg, LAMBDA sec : sec.name # DefaultSection \/ sec.keys # <<>>)

\* C2: a bootstrap that finds no store file and a readable Git config, and
\* reports no error, ends with a store whose only identity section is
\* `default`, with the Git config's user.name and user.email.
C2_FirstRunCreatesDefault ==
    \A p \in Procs :
        (BootReturned(p) /\ result[p] = "nil" /\ snap[p].store = NoFile)
        => \A n \in OptValues, e \in OptValues, s \in OptKeys, g \in OptFlags :
             snap[p].git = GitFileOf(n, e, s, g)
             => /\ IsLines(storeFile)
                /\ LET ids == IdentitySections(IniParse(storeFile))
                   IN  /\ Len(ids) = 1
                       /\ ids[1].name = "default"
                       /\ KeyString(ids[1], "name") = Val(n)
                       /\ KeyString(ids[1], "email") = Val(e)

\* C4: a bootstrap that finds no store file and a missing or unparseable Git
\* config returns an error, and a bootstrap that fails before its final
\* write leaves no store file.
C4_UnreadableGitConfigFails ==
    \A p \in Procs :
        /\ (BootReturned(p) /\ snap[p].store = NoFile /\ ~IsLines(snap[p].git))
           => (result[p] # "nil" /\ storeFile = NoFile)
        /\ (BootReturned(p) /\ snap[p].store = NoFile
            /\ result[p] \in {"err_mkdir", "err_gitconfig"})
           => storeFile = NoFile

\* C5: an invocation that has performed its action (the help of the root
\* command, or the listing) has run the bootstrap first.
C5_BootstrapBeforeAction ==
    \A p \in Procs :
        (pc[p] = "done" /\ ({"help", "list"} \cap ops[p]) # {})
        => "stat_config" \in ops[p]

\* The block `list` prints for section `default` of a store bootstrapped
\* from a Git config with these values.
ExpectedBlock(n, e, s, g) ==
    <<BlankLine, <<"Identity", "default">>, <<"Name", Val(n)>>,
      <<"Email", Val(e)>>>>
    \o (IF Val(s) # "" THEN <<<<"Signing Key", Val(s)>>>> ELSE <<>>)
    \o (IF Val(g) # "" THEN <<<<"GPG Sign", Val(g)>>>> ELSE <<>>)
    \o <<BlankLine>>

\* C8: a `list` that follows a successful bootstrap, which found no store
\* and a Git config with a name or an email, prints the title and exactly
\* one block, the one of `default` with the Git config's values.
C8_BootstrapThenList ==
    \A p \in Procs :
        (/\ pc[p] = "done"
         /\ cmd[p] = "list"
         /\ prev[p].cmd = "root"
         /\ prev[p].result = "nil"
         /\ prev[p].snap.store = NoFile)
        => \A n \in OptValues, e \in OptValues, s \in OptKeys, g \in OptFlags :
             (prev[p].snap.git = GitFileOf(n, e, s, g)
              /\ (Val(n) # "" \/ Val(e) # ""))
             => /\ result[p] = "nil"
                /\ out[p] = <<<<TitleLine>>, ExpectedBlock(n, e, s, g)>>

\* C10: a bootstrap that has returned success leaves a store file behind.
C10_SuccessImpliesStore ==
    \A p \in Procs :
        (BootReturned(p) /\ result[p] = "nil") => storeFile # NoFile

\* A section the listing shows: its name or its email is non-empty.
IsShown(sec) == KeyString(sec, "name") # "" \/ KeyString(sec, "email") # ""

ListDone(p) == pc[p] = "done" /\ cmd[p] = "list" /\ result[p] = "nil"

\* C6: after the title, `list` prints one block per section of the store
\* (the unnamed one included) whose name or email is non-empty, in the
\* order of the sections, and nothing for the other sections.
C6_ListOrder ==
    \A p \in Procs :
        ListDone(p)
        => LET shown == SelectSeq(IniParse(storeFile), IsShown)
           IN  /\ Len(out[p]) = 1 + Len(shown)
               /\ out[p][1] = <<TitleLine>>
               /\ \A i \in 1..Len(shown) :
                    out[p][i + 1][2] = <<"Identity", shown[i].name>>

\* Two blocks, with a section left out before the second.
C6_Witness ==
    /\ ListDone(1)
    /\ Len(out[1]) = 3
    /\ Len(IniParse(storeFile)) = 3
    /\ ~IsShown(IniParse(storeFile)[2])

\* The lines of a block after its header, for a section with these values.
BlockBody(name, email, signingKey, gpgSign) ==
    <<<<"Name", name>>, <<"Email", email>>>>
    \o (IF signingKey = "" THEN <<>> ELSE <<<<"Signing Key", signingKey>>>>)
    \o (IF gpgSign = "" THEN <<>> ELSE <<<<"GPG Sign", gpgSign>>>>)

\* C7: every block is a blank line, the header naming its section, the
\* Name and Email lines, a Signing Key line exactly when the section's
\* signingkey is non-empty, a GPG Sign line exactly when its gpgsign is,
\* and the closing blank line; and a store that parses is listed without
\* error, whatever keys its sections lack.
C7_BlockShape ==
    \A p \in Procs :
        /\ (pc[p] = "done" /\ cmd[p] = "list" /\ IsLines(storeFile))
           => result[p] = "nil"
        /\ ListDone(p)
           => \A i \in 2..Len(out[p]) :
                LET b == out[p][i]
                    sec == Section(IniParse(storeFile), b[2][2])
                    val(k) == IF HasKey(sec, k) THEN KeyString(sec, k) ELSE ""
                IN  /\ b[1] = BlankLine
                    /\ b[2][1] = "Identity"
                    /\ SubSeq(b, 3, Len(b) - 1)
                         = BlockBody(val("name"), val("email"),
                                     val("signingkey"), val("gpgsign"))
                    /\ b[Len(b)] = BlankLine

\* A block for a section with an email and a signing key but neither a
\* name nor a gpgsign key.
C7_Witness ==
    /\ ListDone(1)
    /\ \E i \in 2..Len(out[1]) :
         /\ out[1][i][2] = <<"Identity", "work">>
         /\ out[1][i][3] = <<"Name", "">>
         /\ Len(out[1][i]) = 6
         /\ out[1][i][5] = <<"Signing Key", "a">>
    /\ LET sec == Section(IniParse(storeFile), "work")
       IN  ~HasKey(sec, "name") /\ ~HasKey(sec, "gpgsign")

Other(p) == IF p = 1 THEN 2 ELSE 1

Finished(p) == pc[p] \in {"boot_ret", "done"}

\* Both invocations found the store absent and have returned.
BothSawNoStore ==
    \A p \in Procs :
        Finished(p) /\ statErr[p] # "nil" /\ snap[p].store = NoFile
        /\ "stat_dir" \in ops[p]

BothWrote == \A p \in Procs : Finished(p) /\ "write" \in ops[p]

WlogPos(e) == CHOOSE i \in 1..Len(wlog) : wlog[i] = e

LastWriter == wlog[Len(wlog)][1]

\* The last writer had opened the store before the other invocation wrote.
OpenedBeforeOtherWrote ==
    WlogPos(<<LastWriter, "open">>) < WlogPos(<<Other(LastWriter), "write">>)

\* Neither invocation's error comes from the other one: a failed MkdirAll
\* or open has its cause in the home directory, and a failed write came
\* after the invocation's own open; an invocation that returns success has
\* written the store.
NoFailureFromRace ==
    \A p \in Procs :
        /\ result[p] = "err_mkdir" => azDir = "uncreatable"
        /\ result[p] = "err_write" => (azDir = "readonly" \/ "open" \in ops[p])
        /\ result[p] # "err_gitconfig"
        /\ result[p] = "nil" => "write" \in ops[p]

\* C9 as stated: when two racing first-run bootstraps both found the store
\* absent, neither fails because of the other and the store that remains is
\* the one the last writer wrote.
C9_LastWriterWins ==
    BothSawNoStore
    => /\ NoFailureFromRace
       /\ BothWrote => storeFile = buf[LastWriter]

\* C9 as amended: ... and the store that remains is the last writer's
\* content, followed by the rest of the other's content when that one is
\* longer and the last writer had opened the store before the other wrote.
C9_LastWriteOverlays ==
    BothSawNoStore
    => /\ NoFailureFromRace
       /\ BothWrote
          => LET last == buf[LastWriter]
                 other == buf[Other(LastWriter)]
             IN  storeFile =
                   IF OpenedBeforeOtherWrote /\ Len(last) < Len(other)
                   THEN last \o SubSeq(other, Len(last) + 1, Len(other))
                   ELSE last

\* Both invocations called MkdirAll and wrote, from two different readings
\* of ~/.gitconfig.
C9_Witness ==
    /\ BothSawNoStore
    /\ BothWrote
    /\ \A p \in Procs : "mkdir" \in ops[p]
    /\ buf[1] # buf[2]
    /\ storeFile = buf[LastWriter]

====
